---- MODULE Spec2Model ----
(***************************************************************************)
(* Model of the SKG dashboard script (src/app.py), centred on the          *)
(* days-of-stock (DOS) computation of Tab 3.                               *)
(*                                                                         *)
(* A Streamlit session is a sequence of script runs: the first run uses    *)
(* the widgets' default values, and every change of a widget value reruns  *)
(* the whole script top to bottom.  The state holds the session state of   *)
(* the login, the two data frames of the workbook, the widget values, and  *)
(* what the last run produced.                                             *)
(*                                                                         *)
(* Numbers: Quantity values are integers.  ADS and DOS are floats in the   *)
(* program; the model keeps them as exact fractions in lowest terms, so    *)
(* that x / 21 and Quantity / ADS are computed, compared with 14, 60 and   *)
(* 9999, and sorted by value.                                              *)
(***************************************************************************)
EXTENDS Integers, Sequences, FiniteSets, TLC

VARIABLES
    session_state,              \* st.session_state: password_correct and the login fields
    submitted,                  \* history: the credentials the last password_entered call read
    df_stock,                   \* stock data frame: sequence of rows
    df_sales,                   \* sales data frame: sequence of rows
    date_range,                 \* sidebar "Primary Date Range" (tuple of 1 or 2 dates)
    enable_comparison,          \* sidebar "Enable Comparison" checkbox
    comp_range,                 \* sidebar "Comparison Date Range" value (key global_comp_date)
    selected_wh_types,          \* Tab 1 multiselect "Select Warehouse Types"
    selected_warehouses_sales,  \* Tab 2 multiselect "Select Warehouses"
    filter_status,              \* Tab 3 multiselect "Filter by Health Status"
    outcome,                    \* how the last run ended: "ok" or the exception raised
    filtered_stock,             \* Tab 1: rows of the selected warehouse types
    df_curr,                    \* Tab 2: sales rows of the primary range and warehouses
    df_comp_sidebar,            \* Tab 2: sales rows of the comparison range
    recent_sales,               \* Tab 3: the sales rows of the trailing window
    dos_df,                     \* Tab 3: the DOS table (<<>> when Tab 3 was not reached)
    status_counts,              \* Tab 3: dos_df['Status'].value_counts()
    metrics,                    \* Tab 3: the counts shown by the st.metric cards
    view_df,                    \* Tab 3: the filtered, sorted table that is displayed
    first_run                   \* history: inputs and outputs of the first run that completed Tab 3

vars == <<session_state, submitted, df_stock, df_sales, date_range, enable_comparison, comp_range,
          selected_wh_types, selected_warehouses_sales, filter_status,
          outcome, filtered_stock, df_curr, df_comp_sidebar, recent_sales,
          dos_df, status_counts, metrics, view_df, first_run>>

(***************************************************************************)
(* Bounds of the model.                                                    *)
(***************************************************************************)
MaxStockRows == 2
MaxSalesRows == 2

(***************************************************************************)
(* Program constants.                                                      *)
(***************************************************************************)
WindowDays == 21
AdsDivisor == 21
LowDays == 14
OverDays == 60
Sentinel == 9999
FirstDay == 1

OutOfStock == "Out of Stock"
DeadStock == "Dead Stock (No Sales)"
LowStock == "Low Stock (<14 Days)"
Overstock == "Overstock (>60 Days)"
Healthy == "Healthy (14-60 Days)"

AllStatuses == {LowStock, Healthy, Overstock, DeadStock, OutOfStock}

(***************************************************************************)
(* Exact fractions in lowest terms with a positive denominator.            *)
(***************************************************************************)
Abs(n) == IF n < 0 THEN -n ELSE n

RECURSIVE Gcd(_, _)
Gcd(a, b) == IF b = 0 THEN a ELSE Gcd(b, a % b)

Frac(n, d) ==
    LET g == Gcd(Abs(n), Abs(d))
        s == IF d < 0 THEN -1 ELSE 1
    IN  [num |-> (s * n) \div g, den |-> (s * d) \div g]

FromInt(n) == [num |-> n, den |-> 1]

Lt(a, b) == a.num * b.den < b.num * a.den

Gt(a, b) == Lt(b, a)

\* What the scalar division of get_status yields in place of a value when the
\* divisor is 0: Python raises ZeroDivisionError.
ZeroDivision == [num |-> 0, den |-> 0]

\* Quantity / ADS for an integer Quantity and a fraction ADS.
Divide(q, a) == IF a.num = 0 THEN ZeroDivision ELSE Frac(q * a.den, a.num)

(***************************************************************************)
(* Orders of the string keys (pandas sorts group keys).                    *)
(***************************************************************************)
CodeOrder == <<"A", "B">>
NameOrder == <<"Gadget", "Widget">>

RECURSIVE SumQuantity(_)
SumQuantity(rows) ==
    IF rows = <<>> THEN 0 ELSE Head(rows).Quantity + SumQuantity(Tail(rows))

RECURSIVE MaxDate(_)
MaxDate(rows) ==
    IF Len(rows) = 1 THEN rows[1].Date
    ELSE LET m == MaxDate(Tail(rows))
         IN  IF rows[1].Date > m THEN rows[1].Date ELSE m

\* The concatenation of the sequences parts[1], parts[2], ...
RECURSIVE Concat(_)
Concat(parts) ==
    IF parts = <<>> THEN <<>> ELSE Head(parts) \o Concat(Tail(parts))

(***************************************************************************)
(* Tab 3, step 1: the trailing window and the average daily sales.         *)
(***************************************************************************)
last_date(sales) == MaxDate(sales)

start_date(sales) == last_date(sales) - WindowDays

\* Variant: the window includes its first day (>= in place of >).
trailing_window_inclusive(sales) ==
    LET InWindow(r) == r.Date >= start_date(sales) /\ r.Date <= last_date(sales)
    IN  SelectSeq(sales, InWindow)

trailing_window(sales) ==
    LET InWindow(r) == r.Date > start_date(sales) /\ r.Date <= last_date(sales)
    IN  SelectSeq(sales, InWindow)

\* Variant: the divisor is the number of days of the window on which the
\* product was sold.
sku_sales_per_selling_day(sales) ==
    LET recent == trailing_window(sales)
        Group(c) ==
            LET OfCode(r) == r.StockCode = c
                rows == SelectSeq(recent, OfCode)
                days == {rows[i].Date : i \in 1..Len(rows)}
            IN  IF rows = <<>> THEN <<>>
                ELSE <<[StockCode |-> c,
                        Quantity |-> SumQuantity(rows),
                        ADS |-> Frac(SumQuantity(rows), Cardinality(days))]>>
    IN  Concat([i \in 1..Len(CodeOrder) |-> Group(CodeOrder[i])])

\* recent_sales.groupby('Stock Code')['Quantity'].sum(), then ADS = Quantity / 21:
\* one row per Stock Code of the window, in key order.
sku_sales(sales) ==
    LET recent == trailing_window(sales)
        Group(c) ==
            LET OfCode(r) == r.StockCode = c
                rows == SelectSeq(recent, OfCode)
            IN  IF rows = <<>> THEN <<>>
                ELSE <<[StockCode |-> c,
                        Quantity |-> SumQuantity(rows),
                        ADS |-> Frac(SumQuantity(rows), AdsDivisor)]>>
    IN  Concat([i \in 1..Len(CodeOrder) |-> Group(CodeOrder[i])])

(***************************************************************************)
(* Tab 3, step 2: the current stock per group and the left merge.          *)
(***************************************************************************)
\* df_stock.groupby(['Stock Code', 'Stock Name'])['Quantity'].sum():
\* one row per (Stock Code, Stock Name) pair of the stock frame, in key order.
sku_stock(stock) ==
    LET Group(c, n) ==
            LET OfKey(r) == r.StockCode = c /\ r.StockName = n
                rows == SelectSeq(stock, OfKey)
            IN  IF rows = <<>> THEN <<>>
                ELSE <<[StockCode |-> c, StockName |-> n,
                        Quantity |-> SumQuantity(rows)]>>
        OfCode(c) == Concat([j \in 1..Len(NameOrder) |-> Group(c, NameOrder[j])])
    IN  Concat([i \in 1..Len(CodeOrder) |-> OfCode(CodeOrder[i])])

\* pd.merge(sku_stock, sku_sales[['Stock Code', 'ADS']], on='Stock Code',
\* how='left') followed by fillna(0) on ADS.
merge_left(stockRows, salesRows) ==
    LET Joined(l) ==
            LET Match(r) == r.StockCode = l.StockCode
                hits == SelectSeq(salesRows, Match)
            IN  IF hits = <<>>
                THEN <<[StockCode |-> l.StockCode, StockName |-> l.StockName,
                        Quantity |-> l.Quantity, ADS |-> FromInt(0)]>>
                ELSE [i \in 1..Len(hits) |->
                        [StockCode |-> l.StockCode, StockName |-> l.StockName,
                         Quantity |-> l.Quantity, ADS |-> hits[i].ADS]]
    IN  Concat([i \in 1..Len(stockRows) |-> Joined(stockRows[i])])

(***************************************************************************)
(* Tab 3, step 3: status and days of stock.                                *)
(***************************************************************************)
\* Variant: the two thresholds are exchanged.
get_status_swapped_thresholds(row) ==
    LET stock == row.Quantity
        ads == row.ADS
    IN  IF stock <= 0 THEN OutOfStock
        ELSE IF ads = FromInt(0) THEN DeadStock
        ELSE LET dos == Divide(stock, ads)
             IN  IF dos = ZeroDivision THEN "ZeroDivisionError"
                 ELSE IF Lt(dos, FromInt(OverDays)) THEN LowStock
                 ELSE IF Gt(dos, FromInt(LowDays)) THEN Overstock
                 ELSE Healthy

\* Variant: the test for ads = 0 comes before the test for stock <= 0.
get_status_dead_first(row) ==
    LET stock == row.Quantity
        ads == row.ADS
    IN  IF ads = FromInt(0) THEN DeadStock
        ELSE IF stock <= 0 THEN OutOfStock
        ELSE LET dos == Divide(stock, ads)
             IN  IF dos = ZeroDivision THEN "ZeroDivisionError"
                 ELSE IF Lt(dos, FromInt(LowDays)) THEN LowStock
                 ELSE IF Gt(dos, FromInt(OverDays)) THEN Overstock
                 ELSE Healthy

\* Variant: the thresholds are inclusive (<= 14 and >= 60).
get_status_inclusive(row) ==
    LET stock == row.Quantity
        ads == row.ADS
    IN  IF stock <= 0 THEN OutOfStock
        ELSE IF ads = FromInt(0) THEN DeadStock
        ELSE LET dos == Divide(stock, ads)
             IN  IF dos = ZeroDivision THEN "ZeroDivisionError"
                 ELSE IF ~Gt(dos, FromInt(LowDays)) THEN LowStock
                 ELSE IF ~Lt(dos, FromInt(OverDays)) THEN Overstock
                 ELSE Healthy

\* Variant: the test for ads = 0 is missing.
get_status_unguarded(row) ==
    LET stock == row.Quantity
        ads == row.ADS
    IN  IF stock <= 0 THEN OutOfStock
        ELSE LET dos == Divide(stock, ads)
             IN  IF dos = ZeroDivision THEN "ZeroDivisionError"
                 ELSE IF Lt(dos, FromInt(LowDays)) THEN LowStock
                 ELSE IF Gt(dos, FromInt(OverDays)) THEN Overstock
                 ELSE Healthy

\* get_status(row).  The scalar division stock / ads raises ZeroDivisionError
\* when it is reached with ads = 0; the exception is returned in place of a
\* status and ends the run (see Script).
get_status(row) ==
    LET stock == row.Quantity
        ads == row.ADS
    IN  IF stock <= 0 THEN OutOfStock
        ELSE IF ads = FromInt(0) THEN DeadStock
        ELSE LET dos == Divide(stock, ads)
             IN  IF dos = ZeroDivision THEN "ZeroDivisionError"
                 ELSE IF Lt(dos, FromInt(LowDays)) THEN LowStock
                 ELSE IF Gt(dos, FromInt(OverDays)) THEN Overstock
                 ELSE Healthy

\* np.where(ADS > 0, Quantity / ADS, 9999).  The column division is
\* element-wise and yields inf or nan, without raising, where ADS is 0; those
\* elements are not selected.
dos_days(row) ==
    IF Gt(row.ADS, FromInt(0)) THEN Divide(row.Quantity, row.ADS)
    ELSE FromInt(Sentinel)

with_status(rows) ==
    [i \in 1..Len(rows) |->
        [StockCode |-> rows[i].StockCode, StockName |-> rows[i].StockName,
         Quantity |-> rows[i].Quantity, ADS |-> rows[i].ADS,
         Status |-> get_status(rows[i]), DOS |-> dos_days(rows[i])]]

(***************************************************************************)
(* Tab 3, step 4: the status filter and the default ordering.              *)
(***************************************************************************)
\* Variant: descending by days of stock.
sort_before_descending(x, y) ==
    \/ Gt(x.DOS, y.DOS)
    \/ x.DOS = y.DOS /\ Gt(x.ADS, y.ADS)

\* Variant: ties ascend by ads (ascending=[True, True]).
sort_before_ascending_ads(x, y) ==
    \/ Lt(x.DOS, y.DOS)
    \/ x.DOS = y.DOS /\ Lt(x.ADS, y.ADS)

\* x sorts strictly before y under by=['DOS (Days)', 'ADS'],
\* ascending=[True, False].
sort_before(x, y) ==
    \/ Lt(x.DOS, y.DOS)
    \/ x.DOS = y.DOS /\ Gt(x.ADS, y.ADS)

\* Stable insertion of x into the sorted sequence s.
RECURSIVE Insert(_, _)
Insert(x, s) ==
    IF s = <<>> THEN <<x>>
    ELSE IF sort_before(x, Head(s)) THEN <<x>> \o s
    ELSE <<Head(s)>> \o Insert(x, Tail(s))

RECURSIVE sort_values(_)
sort_values(rows) ==
    IF rows = <<>> THEN <<>>
    ELSE Insert(rows[Len(rows)], sort_values(SubSeq(rows, 1, Len(rows) - 1)))

apply_filter(rows, chosen) ==
    LET Chosen(r) == r.Status \in chosen
    IN  IF chosen # {} THEN SelectSeq(rows, Chosen) ELSE rows

(***************************************************************************)
(* Tab 3 as a whole, lines 538-606.                                        *)
(***************************************************************************)
\* dos_df after the Status and DOS columns are added.
dos_table(stock, sales) ==
    with_status(merge_left(sku_stock(stock), sku_sales(sales)))

raises(rows) == \E i \in 1..Len(rows) : rows[i].Status = "ZeroDivisionError"

\* dos_df['Status'].value_counts(): the number of entries of each status
\* that occurs in the table.
value_counts(table) ==
    [s \in {table[i].Status : i \in 1..Len(table)} |->
        Cardinality({i \in 1..Len(table) : table[i].Status = s})]

\* status_counts.get(s, 0)
counts_get(counts, s) == IF s \in DOMAIN counts THEN counts[s] ELSE 0

\* Variant: the second card reads the count of the third card's status.
summary_metrics_copied_label(table) ==
    LET counts == value_counts(table)
    IN  [s \in {LowStock, Healthy, Overstock, DeadStock} |->
            counts_get(counts, IF s = Healthy THEN Overstock ELSE s)]

\* The four cards m1..m4 of lines 579-587: Restock Needed (Low Stock),
\* Healthy Stock, Overstock Alert and Dead Stock.
summary_metrics(table) ==
    LET counts == value_counts(table)
    IN  [s \in {LowStock, Healthy, Overstock, DeadStock} |->
            counts_get(counts, s)]

(***************************************************************************)
(* Sidebar, Tab 1 and Tab 2: what they read of the widgets and which       *)
(* exceptions end the run before Tab 3.                                    *)
(***************************************************************************)
WarehouseTypes(stock) == {stock[i].WarehouseType : i \in 1..Len(stock)}

Warehouses(sales) == {sales[i].Warehouse : i \in 1..Len(sales)}

\* value=(first_day_of_current_month.date(), latest_date_in_data.date())
default_date_range(sales) == <<FirstDay, MaxDate(sales)>>

\* The previous period of equal length, the default of the comparison range.
default_comp_range(dr) ==
    LET d1 == dr[1]
        d2 == dr[2]
        duration == (d2 - d1) + 1
        prev_end == d1 - 1
        prev_start == prev_end - (duration - 1)
    IN  <<prev_start, prev_end>>

\* Line 123 reads date_range[1] when the comparison is enabled.
sidebar_raises(dr, ec) == ec /\ Len(dr) < 2

\* The value of comp_range after the sidebar: None (here <<>>) without the
\* comparison, else the widget's value, by default the previous period.
comp_range_value(dr, ec, cr) ==
    IF ~ec THEN <<>>
    ELSE IF cr = <<>> THEN default_comp_range(dr)
    ELSE cr

tab1_filtered_stock(stock, whTypes) ==
    LET Selected(r) == r.WarehouseType \in whTypes
    IN  SelectSeq(stock, Selected)

\* Lines 314-316 read date_range[0] and date_range[1] unconditionally.
tab2_raises(dr) == Len(dr) < 2

tab2_df_curr(sales, dr, whs) ==
    LET InRange(r) == r.Date >= dr[1] /\ r.Date <= dr[2] /\ r.Warehouse \in whs
    IN  SelectSeq(sales, InRange)

\* Lines 322-329: the comparison rows, empty unless the comparison is enabled
\* and its range has two dates.
tab2_df_comp_sidebar(sales, dr, ec, cr, whs) ==
    LET comp == comp_range_value(dr, ec, cr)
        InRange(r) ==
            r.Date >= comp[1] /\ r.Date <= comp[2] /\ r.Warehouse \in whs
    IN  IF ec /\ Len(comp) = 2 THEN SelectSeq(sales, InRange) ELSE <<>>

(***************************************************************************)
(* The login.  The session state holds password_correct and, while the     *)
(* login form is rendered, the values of its two text fields.              *)
(***************************************************************************)
\* st.secrets["DB_USERNAME"] and st.secrets["DB_PASSWORD"].
DB_USERNAME == "admin"

DB_PASSWORD == "secret"

\* The session state after the first run of a session: line 17 and the two
\* empty text fields.
first_session_state ==
    [password_correct |-> FALSE, username |-> "", password |-> ""]

\* Variant: the callback compares the username only.
password_entered_username_only(ss) ==
    IF ss.username = DB_USERNAME
    THEN [k \in DOMAIN ss \ {"password"} |->
            IF k = "password_correct" THEN TRUE ELSE ss[k]]
    ELSE [ss EXCEPT !.password_correct = FALSE]

\* The on_change callback of the password field: the session state it
\* leaves.
password_entered(ss) ==
    IF ss.username = DB_USERNAME /\ ss.password = DB_PASSWORD
    THEN [k \in DOMAIN ss \ {"password"} |->
            IF k = "password_correct" THEN TRUE ELSE ss[k]]
    ELSE [ss EXCEPT !.password_correct = FALSE]

\* TRUE when the run goes on to the dashboard, FALSE when it renders the
\* login form.
check_password(ss) == ss.password_correct

(***************************************************************************)
(* One run of the script for given data and widget values.  An exception   *)
(* ends the run: what lies below it is not computed and not rendered.      *)
(***************************************************************************)
NotRun == <<>>

Script(stock, sales, dr, ec, cr, whTypes, whs, fs) ==
    IF sidebar_raises(dr, ec)
    THEN [outcome |-> "IndexError", filtered_stock |-> NotRun,
          df_curr |-> NotRun, df_comp_sidebar |-> NotRun,
          recent_sales |-> NotRun,
          dos_df |-> NotRun, status_counts |-> NotRun,
          metrics |-> NotRun,
          view_df |-> NotRun]
    ELSE IF tab2_raises(dr)
    THEN [outcome |-> "IndexError",
          filtered_stock |-> tab1_filtered_stock(stock, whTypes),
          df_curr |-> NotRun, df_comp_sidebar |-> NotRun,
          recent_sales |-> NotRun,
          dos_df |-> NotRun, status_counts |-> NotRun,
          metrics |-> NotRun,
          view_df |-> NotRun]
    ELSE LET table == dos_table(stock, sales)
         IN  IF raises(table)
             THEN [outcome |-> "ZeroDivisionError",
                   filtered_stock |-> tab1_filtered_stock(stock, whTypes),
                   df_curr |-> tab2_df_curr(sales, dr, whs),
                   df_comp_sidebar |->
                        tab2_df_comp_sidebar(sales, dr, ec, cr, whs),
                   recent_sales |-> trailing_window(sales),
                   dos_df |-> NotRun, status_counts |-> NotRun,
          metrics |-> NotRun,
          view_df |-> NotRun]
             ELSE [outcome |-> "ok",
                   filtered_stock |-> tab1_filtered_stock(stock, whTypes),
                   df_curr |-> tab2_df_curr(sales, dr, whs),
                   df_comp_sidebar |->
                        tab2_df_comp_sidebar(sales, dr, ec, cr, whs),
                   recent_sales |-> trailing_window(sales),
                   dos_df |-> table,
                   status_counts |-> value_counts(table),
                   metrics |-> summary_metrics(table),
                   view_df |-> sort_values(apply_filter(table, fs))]

\* A run that renders the login form ends at st.stop().
Stopped ==
    [outcome |-> "stopped", filtered_stock |-> NotRun, df_curr |-> NotRun,
     df_comp_sidebar |-> NotRun, recent_sales |-> NotRun, dos_df |-> NotRun,
     status_counts |-> NotRun, metrics |-> NotRun, view_df |-> NotRun]

\* The whole script: the login gate, then the dashboard.
Run(ss, stock, sales, dr, ec, cr, whTypes, whs, fs) ==
    IF ~check_password(ss) THEN Stopped
    ELSE Script(stock, sales, dr, ec, cr, whTypes, whs, fs)

\* History: the first run that completes Tab 3 is kept, with the frames and
\* the status filter it ran on.
NoFirstRun == <<>>

remember(first, stock, sales, fs, run) ==
    IF first = NoFirstRun /\ run.outcome = "ok"
    THEN [df_stock |-> stock, df_sales |-> sales, filter_status |-> fs,
          dos_df |-> run.dos_df, status_counts |-> run.status_counts,
          metrics |-> run.metrics, view_df |-> run.view_df]
    ELSE first

\* Variant: a run that completes Tab 3 filters the table displayed by the
\* run before it, when there is one, instead of the table it computed.
RunScript_on_displayed_table ==
    \E run \in {Run(session_state', df_stock, df_sales, date_range',
                     enable_comparison', comp_range', selected_wh_types',
                     selected_warehouses_sales', filter_status')} :
        /\ outcome' = run.outcome
        /\ filtered_stock' = run.filtered_stock
        /\ df_curr' = run.df_curr
        /\ df_comp_sidebar' = run.df_comp_sidebar
        /\ recent_sales' = run.recent_sales
        /\ dos_df' = run.dos_df
        /\ status_counts' = run.status_counts
        /\ metrics' = run.metrics
        /\ view_df' = IF run.outcome = "ok" /\ outcome = "ok"
                      THEN sort_values(apply_filter(view_df, filter_status'))
                      ELSE run.view_df
        /\ first_run' = remember(first_run, df_stock, df_sales,
                                 filter_status', run)
        /\ UNCHANGED <<df_stock, df_sales>>

\* The script reruns with the session state and the widget values of the
\* next state.
RunScript ==
    \E run \in {Run(session_state', df_stock, df_sales, date_range',
                     enable_comparison', comp_range', selected_wh_types',
                     selected_warehouses_sales', filter_status')} :
        /\ outcome' = run.outcome
        /\ filtered_stock' = run.filtered_stock
        /\ df_curr' = run.df_curr
        /\ df_comp_sidebar' = run.df_comp_sidebar
        /\ recent_sales' = run.recent_sales
        /\ dos_df' = run.dos_df
        /\ status_counts' = run.status_counts
        /\ metrics' = run.metrics
        /\ view_df' = run.view_df
        /\ first_run' = remember(first_run, df_stock, df_sales,
                                 filter_status', run)
        /\ UNCHANGED <<df_stock, df_sales>>

\* The rerun after a change of a dashboard widget: the login is not involved.
Rerun ==
    /\ UNCHANGED <<session_state, submitted>>
    /\ RunScript

(***************************************************************************)
(* The data of a session.  The workbook is read once (st.cache_data) and   *)
(* the script stops at line 71 when either sheet is empty, so both frames  *)
(* have at least one row.  Dates are days of one month.  Each multiset of  *)
(* rows is drawn in one row order: the frames are only filtered, grouped,  *)
(* summed and searched for their maximum.                                  *)
(***************************************************************************)
WhTypeOrder == <<"Main", "Outlet">>
WarehouseOrder == <<"Online", "Retail">>

IndexOf(x, order) == CHOOSE i \in 1..Len(order) : order[i] = x

StockKey(r) ==
    <<IndexOf(r.StockCode, CodeOrder), IndexOf(r.StockName, NameOrder),
      IndexOf(r.WarehouseType, WhTypeOrder), r.Quantity>>

SalesKey(r) ==
    <<r.Date, IndexOf(r.StockCode, CodeOrder),
      IndexOf(r.Warehouse, WarehouseOrder), r.Quantity>>

RECURSIVE KeyLeq(_, _)
KeyLeq(a, b) ==
    \/ a = <<>>
    \/ Head(a) < Head(b)
    \/ Head(a) = Head(b) /\ KeyLeq(Tail(a), Tail(b))

\* The frames of 1 to max rows; key maps each row to its sort key.
Frames(rows, key, max) ==
    UNION {{f \in [1..n -> rows] :
                \A i \in 1..(n - 1) : KeyLeq(key[f[i]], key[f[i + 1]])} :
           n \in 1..max}

StockRow(c, n, w, q) ==
    [StockCode |-> c, StockName |-> n, WarehouseType |-> w, Quantity |-> q]

SalesRow(d, c, w, q) ==
    [Date |-> d, StockCode |-> c, Warehouse |-> w, Quantity |-> q]

\* Sessions that exercise Tab 3.  Product A is stocked under two names,
\* product B under one; the quantities reach from below zero to more than
\* 9999 days of sales.  Sales fall on three days, the first 22 and the second
\* 21 days before the third; returns (negative quantities) fall on the third.
StockRows ==
    {StockRow("A", "Widget", "Main", q) : q \in {-5, 0, 100, 140, 600, 100000}}
        \cup {StockRow("A", "Gadget", "Main", 600)}
        \cup {StockRow("B", "Gadget", "Main", q) : q \in {0, 100}}

SalesRows ==
    {SalesRow(d, c, "Online", 210) : d \in {1, 2, 23}, c \in {"A", "B"}}
        \cup {SalesRow(23, c, "Online", -210) : c \in {"A", "B"}}

\* Sessions that exercise the sidebar and the filters of Tab 1 and Tab 2:
\* one product held in two warehouse types and sold through two warehouses.
FilterStockRows ==
    {StockRow("A", "Widget", w, q) : w \in {"Main", "Outlet"}, q \in {0, 100}}

FilterSalesRows ==
    {SalesRow(d, "A", w, 210) : d \in {2, 23}, w \in {"Online", "Retail"}}

\* The first run of a session: every widget has its default value (the
\* value it takes when it is first rendered).
InitWith(stockRows, salesRows) ==
    /\ df_stock \in Frames(stockRows, [r \in stockRows |-> StockKey(r)],
                           MaxStockRows)
    /\ df_sales \in Frames(salesRows, [r \in salesRows |-> SalesKey(r)],
                           MaxSalesRows)
    /\ date_range = default_date_range(df_sales)
    /\ enable_comparison = TRUE
    /\ comp_range = <<>>
    /\ selected_wh_types = WarehouseTypes(df_stock)
    /\ selected_warehouses_sales = Warehouses(df_sales)
    /\ filter_status = AllStatuses
    /\ \E run \in {Run(session_state, df_stock, df_sales, date_range,
                        enable_comparison, comp_range, selected_wh_types,
                        selected_warehouses_sales, filter_status)} :
           /\ outcome = run.outcome
           /\ filtered_stock = run.filtered_stock
           /\ df_curr = run.df_curr
           /\ df_comp_sidebar = run.df_comp_sidebar
           /\ recent_sales = run.recent_sales
           /\ dos_df = run.dos_df
           /\ status_counts = run.status_counts
           /\ metrics = run.metrics
           /\ view_df = run.view_df
           /\ first_run = remember(NoFirstRun, df_stock, df_sales,
                                   filter_status, run)

(***************************************************************************)
(* The widgets.  Each change of a value reruns the script.                 *)
(***************************************************************************)
Dates(sales) == {sales[i].Date : i \in 1..Len(sales)}

\* A range picker holds one date while the user is between the two clicks of
\* a new range, and two dates after the second click.
RangeChoices(sales) ==
    {<<d>> : d \in Dates(sales)}
        \cup {r \in Dates(sales) \X Dates(sales) : r[1] <= r[2]}

StatusChoices == {AllStatuses, {}, {LowStock}, {DeadStock, OutOfStock}}

SetDateRange ==
    /\ check_password(session_state)
    /\ \E r \in RangeChoices(df_sales) : r # date_range /\ date_range' = r
    /\ UNCHANGED <<enable_comparison, comp_range, selected_wh_types,
                   selected_warehouses_sales, filter_status>>
    /\ Rerun

ToggleComparison ==
    /\ check_password(session_state)
    /\ enable_comparison' = ~enable_comparison
    /\ UNCHANGED <<date_range, comp_range, selected_wh_types,
                   selected_warehouses_sales, filter_status>>
    /\ Rerun

\* A widget can be changed when the last run rendered it.  The comparison
\* range is rendered at line 128, under the checkbox and after line 123.
SetCompRange ==
    /\ enable_comparison
    /\ check_password(session_state)
    /\ ~sidebar_raises(date_range, enable_comparison)
    /\ \E r \in RangeChoices(df_sales) : r # comp_range /\ comp_range' = r
    /\ UNCHANGED <<date_range, enable_comparison, selected_wh_types,
                   selected_warehouses_sales, filter_status>>
    /\ Rerun

\* Rendered at line 144, after the sidebar.
SetWarehouseTypes ==
    /\ check_password(session_state)
    /\ ~sidebar_raises(date_range, enable_comparison)
    /\ \E s \in SUBSET WarehouseTypes(df_stock) :
            s # selected_wh_types /\ selected_wh_types' = s
    /\ UNCHANGED <<date_range, enable_comparison, comp_range,
                   selected_warehouses_sales, filter_status>>
    /\ Rerun

\* Rendered at line 282, after the sidebar and before line 314.
SetSalesWarehouses ==
    /\ check_password(session_state)
    /\ ~sidebar_raises(date_range, enable_comparison)
    /\ \E s \in SUBSET Warehouses(df_sales) :
            s # selected_warehouses_sales /\ selected_warehouses_sales' = s
    /\ UNCHANGED <<date_range, enable_comparison, comp_range,
                   selected_wh_types, filter_status>>
    /\ Rerun

\* Rendered at line 593, in a run that reaches Tab 3.
SetFilterStatus ==
    /\ outcome = "ok"
    /\ \E s \in StatusChoices : s # filter_status /\ filter_status' = s
    /\ UNCHANGED <<date_range, enable_comparison, comp_range,
                   selected_wh_types, selected_warehouses_sales>>
    /\ Rerun

\* The login form, rendered while password_correct is false.
Usernames == {"", DB_USERNAME, "guest"}

Passwords == {"", DB_PASSWORD, "wrong"}

NoSubmission == <<>>

\* A new value of the username field: a rerun, no callback.
EnterUsername ==
    /\ ~check_password(session_state)
    /\ \E u \in Usernames :
            /\ u # session_state.username
            /\ session_state' = [session_state EXCEPT !.username = u]
    /\ UNCHANGED <<submitted, date_range, enable_comparison, comp_range,
                   selected_wh_types, selected_warehouses_sales,
                   filter_status>>
    /\ RunScript

\* A new value of the password field: the callback runs on the session
\* state holding the new value, then the script reruns.
EnterPassword ==
    /\ ~check_password(session_state)
    /\ \E p \in Passwords :
            /\ p # session_state.password
            /\ LET typed == [session_state EXCEPT !.password = p]
               IN  /\ submitted' = [username |-> typed.username,
                                    password |-> typed.password]
                   /\ session_state' = password_entered(typed)
    /\ UNCHANGED <<date_range, enable_comparison, comp_range,
                   selected_wh_types, selected_warehouses_sales,
                   filter_status>>
    /\ RunScript

(***************************************************************************)
(* Specifications.                                                         *)
(***************************************************************************)
\* A session past the login: the state password_entered leaves on the
\* configured credentials.
LoggedIn ==
    /\ submitted = [username |-> DB_USERNAME, password |-> DB_PASSWORD]
    /\ session_state =
            password_entered([first_session_state EXCEPT
                                !.username = DB_USERNAME,
                                !.password = DB_PASSWORD])

Init == LoggedIn /\ InitWith(StockRows, SalesRows)

Next == SetFilterStatus

Spec == Init /\ [][Next]_vars

InitFilters == LoggedIn /\ InitWith(FilterStockRows, FilterSalesRows)

NextFilters ==
    \/ SetDateRange
    \/ ToggleComparison
    \/ SetCompRange
    \/ SetWarehouseTypes
    \/ SetSalesWarehouses

SpecFilters == InitFilters /\ [][NextFilters]_vars

\* A session from its first run: the login, then the Tab 3 filter.
InitLogin ==
    /\ submitted = NoSubmission
    /\ session_state = first_session_state
    /\ InitWith(FilterStockRows, FilterSalesRows)

NextLogin ==
    \/ EnterUsername
    \/ EnterPassword
    \/ SetFilterStatus

SpecLogin == InitLogin /\ [][NextLogin]_vars

(***************************************************************************)
(* Properties.                                                             *)
(***************************************************************************)
Rows(table) == {table[i] : i \in 1..Len(table)}

StockCodes(stock) == {stock[i].StockCode : i \in 1..Len(stock)}

Positive(a) == a.num > 0

\* The position of quantity / ads relative to k, for ads # 0, by cross
\* multiplication.
RatioBelow(q, a, k) ==
    IF a.num > 0 THEN q * a.den < k * a.num ELSE q * a.den > k * a.num

RatioAbove(q, a, k) ==
    IF a.num > 0 THEN q * a.den > k * a.num ELSE q * a.den < k * a.num

RatioIs(q, a, k) == q * a.den = k * a.num

\* C1: the DOS table has exactly one entry per distinct Stock Code of the
\* stock frame: as many entries as distinct codes, no code in two entries,
\* and no code that is not in the stock frame.
C1_OneEntryPerStockCode ==
    outcome = "ok" =>
        /\ Len(dos_df) = Cardinality(StockCodes(df_stock))
        /\ \A i, j \in 1..Len(dos_df) :
                dos_df[i].StockCode = dos_df[j].StockCode => i = j
        /\ \A i \in 1..Len(dos_df) : dos_df[i].StockCode \in StockCodes(df_stock)

\* The priority-ordered rule list of C2 over (quantity, ads).
RuleList(q, a) ==
    IF q <= 0 THEN OutOfStock
    ELSE IF a.num = 0 THEN DeadStock
    ELSE IF RatioBelow(q, a, LowDays) THEN LowStock
    ELSE IF RatioAbove(q, a, OverDays) THEN Overstock
    ELSE Healthy

\* C2: every entry's status is one of the five values and is the first
\* matching rule of the list applied to the entry's quantity and ads.
C2_StatusByRuleList ==
    outcome = "ok" =>
        \A e \in Rows(dos_df) :
            /\ e.Status \in AllStatuses
            /\ e.Status = RuleList(e.Quantity, e.ADS)

\* The example of C2: quantity 100 with 210 units sold in the window is Low
\* Stock.
C2_Witness ==
    /\ outcome = "ok"
    /\ \E e \in Rows(dos_df) :
            e.Quantity = 100 /\ e.ADS = FromInt(10) /\ e.Status = LowStock
    /\ \E e \in Rows(dos_df) : e.Status = DeadStock

\* Stock and sales without negative quantities (no returns, no negative
\* balance).
NoNegativeQuantity ==
    /\ \A i \in 1..Len(df_stock) : df_stock[i].Quantity >= 0
    /\ \A i \in 1..Len(df_sales) : df_sales[i].Quantity >= 0

\* C3 as stated, already for data without negative quantities: in the
\* displayed order every Dead Stock and every Out of Stock entry comes after
\* every Low Stock, Healthy and Overstock entry.
C3_DeadAndOutOfStockSortLast ==
    outcome = "ok" /\ NoNegativeQuantity =>
        \A i, j \in 1..Len(view_df) :
            /\ view_df[i].Status \in {DeadStock, OutOfStock}
            /\ view_df[j].Status \in {LowStock, Healthy, Overstock}
            => j < i

\* C3 as amended: a Dead Stock entry, and an Out of Stock entry whose ads is
\* not positive, carries 9999 and comes after every Low Stock, Healthy and
\* Overstock entry whose days of stock are below 9999; an Out of Stock entry
\* whose ads is positive carries quantity / ads, which is at most 0, and
\* comes before every Low Stock, Healthy and Overstock entry.
C3_SentinelEntriesSortLast ==
    outcome = "ok" =>
        \A i, j \in 1..Len(view_df) :
            LET x == view_df[i]
                y == view_df[j]
                sentinel == \/ x.Status = DeadStock
                            \/ x.Status = OutOfStock /\ ~Positive(x.ADS)
                early == x.Status = OutOfStock /\ Positive(x.ADS)
                live == y.Status \in {LowStock, Healthy, Overstock}
            IN  /\ sentinel => x.DOS = FromInt(Sentinel)
                /\ sentinel /\ live /\ Lt(y.DOS, FromInt(Sentinel)) => j < i
                /\ early => x.DOS.num <= 0
                /\ early /\ live => i < j

\* A displayed table with a Dead Stock entry below a Low Stock entry.
C3_Witness ==
    /\ outcome = "ok"
    /\ \E i, j \in 1..Len(view_df) :
            /\ i < j
            /\ view_df[i].Status = LowStock /\ Positive(view_df[i].ADS)
            /\ view_df[j].Status = DeadStock

\* C4: an entry whose quantity is zero or negative is Out of Stock, whatever
\* its ads.
C4_NoStockIsOutOfStock ==
    outcome = "ok" =>
        \A e \in Rows(dos_df) : e.Quantity <= 0 => e.Status = OutOfStock

\* Quantity 0 with positive ads, and a negative quantity without sales.
C4_Witness ==
    /\ outcome = "ok"
    /\ \E e \in Rows(dos_df) :
            e.Quantity = 0 /\ Positive(e.ADS) /\ e.Status = OutOfStock
    /\ \E e \in Rows(dos_df) :
            e.Quantity < 0 /\ e.ADS.num = 0 /\ e.Status = OutOfStock

\* C5: for quantity > 0 and ads > 0, quantity / ads of exactly 14 and of
\* exactly 60 is Healthy, below 14 is Low Stock and above 60 is Overstock.
C5_BoundariesAreHealthy ==
    outcome = "ok" =>
        \A e \in Rows(dos_df) :
            e.Quantity > 0 /\ Positive(e.ADS) =>
                /\ RatioIs(e.Quantity, e.ADS, LowDays) => e.Status = Healthy
                /\ RatioIs(e.Quantity, e.ADS, OverDays) => e.Status = Healthy
                /\ RatioBelow(e.Quantity, e.ADS, LowDays) => e.Status = LowStock
                /\ RatioAbove(e.Quantity, e.ADS, OverDays) => e.Status = Overstock

\* Quantity 140 and quantity 600, both with ads 10, in one table.
C5_Witness ==
    /\ outcome = "ok"
    /\ \E e \in Rows(dos_df) :
            e.Quantity = 140 /\ e.ADS = FromInt(10) /\ e.Status = Healthy
    /\ \E e \in Rows(dos_df) :
            e.Quantity = 600 /\ e.ADS = FromInt(10) /\ e.Status = Healthy

\* C6: no run ends in a division by zero; every entry's days of stock are
\* quantity / ads when ads > 0 and 9999 otherwise; an entry with ads = 0 and
\* quantity > 0 has 9999 and is Dead Stock.
C6_SentinelWithoutDivisionByZero ==
    /\ outcome # "ZeroDivisionError"
    /\ outcome = "ok" =>
        \A e \in Rows(dos_df) :
            /\ Positive(e.ADS) =>
                    e.DOS.num * e.ADS.num = e.Quantity * e.ADS.den * e.DOS.den
            /\ ~Positive(e.ADS) => e.DOS = FromInt(Sentinel)
            /\ e.ADS.num = 0 /\ e.Quantity > 0 =>
                    e.DOS = FromInt(Sentinel) /\ e.Status = DeadStock

\* An entry with stock and ads 0 next to an entry with stock and positive
\* ads.
C6_Witness ==
    /\ outcome = "ok"
    /\ \E e \in Rows(dos_df) :
            e.Quantity > 0 /\ e.ADS.num = 0 /\ e.DOS = FromInt(Sentinel)
    /\ \E e \in Rows(dos_df) :
            e.Quantity > 0 /\ Positive(e.ADS) /\ e.DOS # FromInt(Sentinel)

\* The rows of the window that sell the product of code c.
WindowRowsOf(c) == {i \in 1..Len(recent_sales) : recent_sales[i].StockCode = c}

RECURSIVE SumOver(_, _)
SumOver(rows, idx) ==
    IF idx = {} THEN 0
    ELSE LET i == CHOOSE k \in idx : TRUE
         IN  rows[i].Quantity + SumOver(rows, idx \ {i})

\* C7: every entry's ads is the sum of Quantity over the window's rows of
\* its product divided by 21, however many days of the window have sales;
\* without such a row it is 0.
C7_AdsIsWindowTotalOver21 ==
    outcome = "ok" =>
        \A e \in Rows(dos_df) :
            /\ e.ADS.num * AdsDivisor
                    = SumOver(recent_sales, WindowRowsOf(e.StockCode)) * e.ADS.den
            /\ WindowRowsOf(e.StockCode) = {} => e.ADS = FromInt(0)

\* An entry with sales on two days of the window next to an entry without
\* sales.
C7_Witness ==
    /\ outcome = "ok"
    /\ \E e \in Rows(dos_df) :
            /\ e.ADS = FromInt(20)
            /\ \E i, j \in WindowRowsOf(e.StockCode) :
                    recent_sales[i].Date # recent_sales[j].Date
    /\ \E e \in Rows(dos_df) : WindowRowsOf(e.StockCode) = {} /\ e.ADS = FromInt(0)

\* The number of rows of a frame that equal r.
Count(rows, r) == Cardinality({i \in 1..Len(rows) : rows[i] = r})

LatestDate == CHOOSE d \in Dates(df_sales) : \A e \in Dates(df_sales) : e <= d

\* C8: the window is the 21 days that end at the latest date of the whole
\* sales frame: a sales row is in the window if and only if its date d
\* satisfies latest - 21 < d <= latest.
C8_WindowIs21DaysToLatest ==
    outcome = "ok" =>
        \A i \in 1..Len(df_sales) :
            LET r == df_sales[i]
                inside == LatestDate - WindowDays < r.Date /\ r.Date <= LatestDate
            IN  Count(recent_sales, r) = IF inside THEN Count(df_sales, r) ELSE 0

\* A row dated the latest date is in the window, a row dated exactly 21 days
\* earlier is not.
C8_Witness ==
    /\ outcome = "ok"
    /\ \E i, j \in 1..Len(df_sales) :
            /\ df_sales[i].Date = LatestDate
            /\ df_sales[j].Date = LatestDate - WindowDays
            /\ Count(recent_sales, df_sales[i]) = 1
            /\ Count(recent_sales, df_sales[j]) = 0

\* C9: no change of the primary date range, the comparison toggle, the
\* comparison range, the warehouse types of Tab 1 or the warehouses of Tab 2
\* changes the DOS table or the displayed table.
C9_DosUnchangedByFilters ==
    [][dos_df' = dos_df /\ view_df' = view_df]_vars

\* C10: the displayed table ascends by days of stock, and entries with equal
\* days of stock descend by ads.
C10_OrderedByDosThenAdsDescending ==
    outcome = "ok" =>
        \A i, j \in 1..Len(view_df) :
            i < j =>
                \/ Lt(view_df[i].DOS, view_df[j].DOS)
                \/ /\ view_df[i].DOS = view_df[j].DOS
                   /\ ~Lt(view_df[i].ADS, view_df[j].ADS)

\* Two entries with equal days of stock and different ads, next to an entry
\* with fewer days of stock.
C10_Witness ==
    /\ outcome = "ok"
    /\ \E i, j \in 1..Len(view_df) :
            /\ i < j
            /\ view_df[i].DOS = view_df[j].DOS
            /\ Gt(view_df[i].ADS, view_df[j].ADS)

\* The number of entries of the DOS table with status s.
EntriesWith(s) == Cardinality({i \in 1..Len(dos_df) : dos_df[i].Status = s})

\* The count handed over for status s; no count reads as 0.
SummaryCount(s) == IF s \in DOMAIN metrics THEN metrics[s] ELSE 0

RECURSIVE SumOfCounts(_, _)
SumOfCounts(f, keys) ==
    IF keys = {} THEN 0
    ELSE LET k == CHOOSE x \in keys : TRUE
         IN  f[k] + SumOfCounts(f, keys \ {k})

\* C11 as stated, already for data without negative quantities: the summary
\* counts cover all five statuses, each equal to the number of entries of the
\* full table with that status, so that they sum to the number of entries.
C11_CountsCoverAllFiveStatuses ==
    (outcome = "ok" /\ NoNegativeQuantity) =>
        /\ \A s \in AllStatuses : SummaryCount(s) = EntriesWith(s)
        /\ SumOfCounts(metrics, DOMAIN metrics) = Len(dos_df)

\* C11 as amended: status_counts counts the entries of the full table for
\* every status that occurs in it and sums to the number of entries, but only
\* four counts are handed over, for Low Stock, Healthy, Overstock and Dead
\* Stock, each equal to the number of entries of the full table with that
\* status under every status filter; Out of Stock has no count, so the four
\* sum to the number of entries that are not Out of Stock.
C11_FourCountsWithoutOutOfStock ==
    outcome = "ok" =>
        /\ \A s \in AllStatuses :
                IF EntriesWith(s) = 0 THEN s \notin DOMAIN status_counts
                ELSE s \in DOMAIN status_counts
                        /\ status_counts[s] = EntriesWith(s)
        /\ SumOfCounts(status_counts, DOMAIN status_counts) = Len(dos_df)
        /\ DOMAIN metrics = AllStatuses \ {OutOfStock}
        /\ \A s \in DOMAIN metrics : metrics[s] = EntriesWith(s)
        /\ SumOfCounts(metrics, DOMAIN metrics)
                = Len(dos_df) - EntriesWith(OutOfStock)

\* A table with an Out of Stock entry and a Healthy entry, displayed under a
\* filter that hides the Healthy entry.
C11_Witness ==
    /\ outcome = "ok"
    /\ EntriesWith(OutOfStock) = 1
    /\ metrics[Healthy] = 1
    /\ filter_status = {LowStock}

C13_StatusAgreesWithDosDays ==
    outcome = "ok" =>
        \A e \in Rows(dos_df) :
            /\ e.Status = LowStock => Lt(e.DOS, FromInt(LowDays))
            /\ e.Status = Overstock => Gt(e.DOS, FromInt(OverDays))
            /\ e.Status = Healthy =>
                    /\ ~Lt(e.DOS, FromInt(LowDays))
                    /\ ~Gt(e.DOS, FromInt(OverDays))
            /\ e.Status = DeadStock => e.DOS = FromInt(Sentinel)

\* A step in which password_entered ran: it read credentials that differ
\* from those of the call before, since the password field changed.
Submission == submitted' # submitted

Matching ==
    submitted' = [username |-> DB_USERNAME, password |-> DB_PASSWORD]

\* C14: the login gate.  Only a run with password_correct true goes past the
\* login to the data and the tabs; password_correct starts false; it becomes
\* true only in a submission whose username and password both equal the
\* secrets, and such a submission makes it true; any other submission leaves
\* it false; once true it stays true; and while it is true the session state
\* holds no password.
C14_LoginGate ==
    /\ ~session_state.password_correct
    /\ [](outcome # "stopped" => session_state.password_correct)
    /\ [](~session_state.password_correct =>
            /\ outcome = "stopped"
            /\ dos_df = NotRun /\ view_df = NotRun /\ filtered_stock = NotRun
            /\ df_curr = NotRun /\ metrics = NotRun)
    /\ [](session_state.password_correct =>
            "password" \notin DOMAIN session_state)
    /\ [][(~session_state.password_correct
                /\ session_state'.password_correct)
            => (Submission /\ Matching)]_vars
    /\ [][(Submission /\ Matching) => session_state'.password_correct]_vars
    /\ [][(Submission /\ ~Matching) => ~session_state'.password_correct]_vars
    /\ [][session_state.password_correct
            => session_state'.password_correct]_vars

\* A session that is logged in, after a submission, and has rerun the
\* dashboard since: the Tab 3 filter was changed.
C14_Witness ==
    /\ session_state.password_correct
    /\ submitted # NoSubmission
    /\ outcome = "ok"
    /\ filter_status = {LowStock}

====
